---- MODULE Spec2Model ----
(***************************************************************************)
(* Model of extract_features.py: the tag cache (posset), the orthographic  *)
(* variant generator, the two analyzer clients (Gertwol batch subprocess,  *)
(* Morphisto socket service with respawn), the two normalizers and the     *)
(* feature extractor.                                                      *)
(*                                                                         *)
(* Text is modelled as sequences of characters; a character is a string of *)
(* length one, or, for a non-ASCII character, the name of its code point.  *)
(***************************************************************************)
EXTENDS Integers, Sequences, FiniteSets, TLC

\* ------------------------------------------------------------ characters
\* Non-ASCII characters of the source, named by code point.
sz == "U+00DF"
uml_a == "U+00E4"
uml_o == "U+00F6"
uml_u == "U+00FC"
Uml_A == "U+00C4"
Uml_O == "U+00D6"
Uml_U == "U+00DC"
\* A byte that is not valid UTF-8 (0xFF).
InvalidByte == "0xFF"

NL == "\n"
TAB == "\t"
Whitespace == {" ", TAB, NL}

\* ------------------------------------------------------- string helpers
\* str.startswith
StartsWith(s, p) == Len(s) >= Len(p) /\ SubSeq(s, 1, Len(p)) = p

\* str.find, 1-based; 0 when sep does not occur in s
Find(s, sep) ==
    LET hits == {i \in 1..(Len(s) - Len(sep) + 1) : SubSeq(s, i, i + Len(sep) - 1) = sep}
    IN  IF hits = {} THEN 0 ELSE CHOOSE i \in hits : \A j \in hits : i <= j

\* the `in` operator on strings
Contains(s, sep) == Find(s, sep) # 0

\* str.split(sep): non-overlapping occurrences, scanned left to right
RECURSIVE Split(_, _)
Split(s, sep) ==
    LET i == Find(s, sep)
    IN  IF i = 0 THEN <<s>>
        ELSE <<SubSeq(s, 1, i - 1)>> \o Split(SubSeq(s, i + Len(sep), Len(s)), sep)

\* str.split(): runs of whitespace separate the tokens, no empty token
RECURSIVE SplitWs(_)
SplitWs(s) ==
    IF s = <<>> THEN <<>>
    ELSE IF Head(s) \in Whitespace THEN SplitWs(Tail(s))
    ELSE LET ws == {i \in 1..Len(s) : s[i] \in Whitespace}
             n  == IF ws = {} THEN Len(s)
                   ELSE (CHOOSE i \in ws : \A j \in ws : i <= j) - 1
         IN  <<SubSeq(s, 1, n)>> \o SplitWs(SubSeq(s, n + 1, Len(s)))

\* sep.join(list)
RECURSIVE Join(_, _)
Join(sep, list) ==
    IF list = <<>> THEN <<>>
    ELSE IF Len(list) = 1 THEN list[1]
    ELSE list[1] \o sep \o Join(sep, Tail(list))

\* the elements of a sequence
Range(seq) == {seq[i] : i \in 1..Len(seq)}

\* --------------------------------------------------- spelling_variations
\* One rule of spelling_variations: the pieces of word.split(old), each
\* adjacent pair of pieces joined by new.
SplitVariants(word, old, new) ==
    IF Contains(word, old)
    THEN LET sharplist == Split(word, old)
         IN  [i \in 1..(Len(sharplist) - 1) |-> sharplist[i] \o new \o sharplist[i + 1]]
    ELSE <<>>

\* The Ae/Oe/Ue prefix rule (if / elif / elif).
PrefixVariants(word) ==
    IF StartsWith(word, <<"A", "e">>) THEN <<(<<Uml_A>> \o SubSeq(word, 3, Len(word)))>>
    ELSE IF StartsWith(word, <<"O", "e">>) THEN <<(<<Uml_O>> \o SubSeq(word, 3, Len(word)))>>
    ELSE IF StartsWith(word, <<"U", "e">>) THEN <<(<<Uml_U>> \o SubSeq(word, 3, Len(word)))>>
    ELSE <<>>

\* The generator, as the sequence of the words it yields, in order.
spelling_variations(word) ==
    PrefixVariants(word)
    \o SplitVariants(word, <<"s", "s">>, <<sz>>)
    \o SplitVariants(word, <<sz>>, <<"s", "s">>)
    \o SplitVariants(word, <<"a", "e">>, <<uml_a>>)
    \o SplitVariants(word, <<"o", "e">>, <<uml_o>>)
    \o SplitVariants(word, <<"u", "e">>, <<uml_u>>)

\* ------------------------------------------------------ character tables
UpperSeq == <<"A", "B", "C", "D", "E", "F", "G", "H", "I", "J", "K", "L", "M", "N", "O", "P", "Q", "R", "S", "T", "U", "V", "W", "X", "Y", "Z", Uml_A, Uml_O, Uml_U>>
LowerSeq == <<"a", "b", "c", "d", "e", "f", "g", "h", "i", "j", "k", "l", "m", "n", "o", "p", "q", "r", "s", "t", "u", "v", "w", "x", "y", "z", uml_a, uml_o, uml_u>>

\* The characters of the model in ascending code point order (the order
\* sorted() gives unicode strings).
CodeOrder ==
    <<TAB, NL, " ", "!", "\"", "$", "'", "(", ")", "*", "+", ",", "-", ".", "/",
      ":", ";", "<", ">", "?">>
    \o SubSeq(UpperSeq, 1, 26) \o <<"[", "]", "_">> \o SubSeq(LowerSeq, 1, 26) \o <<"{", "}">>
    \o <<"U+00AB", "U+00BB", Uml_A, Uml_O, Uml_U, sz, uml_a, uml_o, uml_u,
         "U+2012", "U+2013", "U+2018", "U+2019", "U+201C", "U+201D">>

IndexOf(seq, c) == CHOOSE i \in 1..Len(seq) : seq[i] = c

Ord(c) == IndexOf(CodeOrder, c)

\* unicode.isupper on one character
IsUpper(c) == c \in Range(UpperSeq)

\* unicode.lower
LowerChar(c) == IF IsUpper(c) THEN LowerSeq[IndexOf(UpperSeq, c)] ELSE c
Lower(s) == [i \in 1..Len(s) |-> LowerChar(s[i])]

\* self.alphnum = ^(?:\w|\d|-)+$ with re.U, applied to one character
alphnum(c) == c \in Range(UpperSeq) \cup Range(LowerSeq) \cup {sz, "-", "_"}

\* a < b for unicode strings
RECURSIVE StrLess(_, _)
StrLess(a, b) ==
    IF b = <<>> THEN FALSE
    ELSE IF a = <<>> THEN TRUE
    ELSE IF Head(a) = Head(b) THEN StrLess(Tail(a), Tail(b))
    ELSE Ord(Head(a)) < Ord(Head(b))

\* sorted(set of strings)
RECURSIVE Sorted(_)
Sorted(S) ==
    IF S = {} THEN <<>>
    ELSE LET m == CHOOSE a \in S : \A b \in S \ {a} : StrLess(a, b)
         IN  <<m>> \o Sorted(S \ {m})

\* ------------------------------------------------------------ the cache
\* MorphAnalyzer.__init__: the punctuation seeds of posset.
SeedOpen ==
    {<<"(">>, <<")">>, <<"{">>, <<"}">>, <<"\"">>, <<"'">>, <<"U+201D">>, <<"U+201C">>,
     <<"[">>, <<"]">>, <<"U+00AB">>, <<"U+00BB">>, <<"-">>, <<"U+2012">>, <<"U+2013">>,
     <<"U+2018">>, <<"U+2019">>, <<"/">>, <<".", ".", ".">>, <<"-", "-">>}
SeedComma == {<<",">>}
SeedStop == {<<".">>, <<":">>, <<";">>, <<"!">>, <<"?">>}

InitPosset ==
    [w \in SeedOpen \cup SeedComma \cup SeedStop |->
        IF w \in SeedOpen THEN {<<"$", "(">>}
        ELSE IF w \in SeedComma THEN {<<"$", ",">>}
        ELSE {<<"$", ".">>}]

\* (variant of SetEmpty: the assignment is missing)
SetEmptySkipped(ps, word) == ps

\* self.posset[word] = set([])
SetEmpty(ps, word) ==
    IF word \in DOMAIN ps THEN [ps EXCEPT ![word] = {}] ELSE ps @@ (word :> {})

\* self.posset[word].add(pos) on a defaultdict(set): a missing key is created
AddTag(ps, word, pos) ==
    IF word \in DOMAIN ps THEN [ps EXCEPT ![word] = @ \cup {pos}] ELSE ps @@ (word :> {pos})

\* (variant of IsMiss: the membership test is missing)
IsMissAlways(ps, word) == TRUE

\* if not word in self.posset
IsMiss(ps, word) == word \notin DOMAIN ps

\* The miss protocol of analyze / process_line for one word that is not a
\* key: the word, then each variant that is not a key at its turn, is given
\* an empty set and appended to the query list.
\* st = [ps |-> cache, new |-> query list]
\* (variant of AddAlternatives: every variant is reset and queried, a key or not)
RECURSIVE AddAlternativesNoCheck(_, _)
AddAlternativesNoCheck(st, alts) ==
    IF alts = <<>> THEN st
    ELSE AddAlternativesNoCheck([ps  |-> SetEmpty(st.ps, Head(alts)),
                                 new |-> Append(st.new, Head(alts))], Tail(alts))

RECURSIVE AddAlternatives(_, _)
AddAlternatives(st, alts) ==
    IF alts = <<>> THEN st
    ELSE LET alternative == Head(alts)
         IN  IF IsMiss(st.ps, alternative)
             THEN AddAlternatives([ps  |-> SetEmpty(st.ps, alternative),
                                   new |-> Append(st.new, alternative)], Tail(alts))
             ELSE AddAlternatives(st, Tail(alts))

Placeholders(st, word) ==
    AddAlternatives([ps |-> SetEmpty(st.ps, word), new |-> Append(st.new, word)],
                    spelling_variations(word))

\* ------------------------------------------------------- create_features
Sentinel == <<"Z", "Z", "Z">>

\* (variant of CollectPos: the sets of the variants are not united in)
CollectPosOwnOnly(ps, word) == IF word \in DOMAIN ps THEN ps[word] ELSE {}

\* The cache after the read self.posset[word] of a defaultdict(set): a
\* missing key is created with the empty set.
GetItem(ps, word) == IF word \in DOMAIN ps THEN ps ELSE ps @@ (word :> {})

\* One turn of the loop over the variants.
\* st = [ps |-> cache, pos |-> the value of the local pos,
\*       ref |-> the key whose set object pos is, <<>> for an object of its own]
\* (variant of UnionAlternative: the membership test is missing)
UnionAlternativeNoTest(st, alternative) ==
    LET ps1 == GetItem(st.ps, alternative)
    IN  [ps |-> ps1, pos |-> ps1[alternative] \cup st.pos, ref |-> <<>>]

\* if alternative in self.posset: pos = self.posset[alternative].union(pos)
\* (union returns a new set)
UnionAlternative(st, alternative) ==
    IF ~IsMiss(st.ps, alternative)
    THEN LET ps1 == GetItem(st.ps, alternative)
         IN  [ps |-> ps1, pos |-> ps1[alternative] \cup st.pos, ref |-> <<>>]
    ELSE st

RECURSIVE UnionAlternatives(_, _)
UnionAlternatives(st, alts) ==
    IF alts = <<>> THEN st
    ELSE UnionAlternatives(UnionAlternative(st, Head(alts)), Tail(alts))

\* pos = [] ; if word in self.posset: pos = self.posset[word] ; the loop
CollectState(ps, word) ==
    UnionAlternatives(
        IF ~IsMiss(ps, word)
        THEN [ps |-> GetItem(ps, word), pos |-> GetItem(ps, word)[word], ref |-> word]
        ELSE [ps |-> ps, pos |-> {}, ref |-> <<>>],
        spelling_variations(word))

\* the tags create_features collects for a word: its own set if it is a
\* key, united with the set of every variant that is a key
CollectPos(ps, word) == CollectState(ps, word).pos

\* the cache when create_features(line) has returned
CacheAfterFeatures(ps, line) ==
    IF SplitWs(line) = <<>> THEN ps ELSE CollectState(ps, SplitWs(line)[1]).ps

\* (variant of PosSlots: the slice [:10] is missing)
PosSlotsUnsliced(ps, word) ==
    Sorted(CollectPos(ps, word)) \o [i \in 1..10 |-> Sentinel]

\* pos = sorted(pos) + ['ZZZ']*10 ; pos[:10]
PosSlots(ps, word) ==
    SubSeq(Sorted(CollectPos(ps, word)) \o [i \in 1..10 |-> Sentinel], 1, 10)

create_features(ps, line) ==
    LET linelist == SplitWs(line)
    IN  IF linelist = <<>> THEN <<NL>>
        ELSE LET word == linelist[1]
                 truth == IF Len(linelist) > 1 THEN linelist[2] ELSE <<>>
                 feature_upper == IF IsUpper(word[1]) THEN <<"u", "c">> ELSE <<"l", "c">>
                 feature_alnum == IF alphnum(word[1]) THEN <<"y">> ELSE <<"n">>
                 posstring == Join(<<TAB>>, PosSlots(ps, word))
                 outstring == Join(<<TAB>>, <<word, Lower(word), feature_upper,
                                              feature_alnum, posstring>>)
             IN  (IF truth # <<>> THEN outstring \o <<TAB>> \o truth ELSE outstring)
                 \o <<NL>>

\* ------------------------------------------------------- Gertwol.convert
\* line.decode("UTF-8") raises UnicodeDecodeError on a byte that is no UTF-8
Decodable(line) == InvalidByte \notin Range(line)

StopTags ==
    {<<"T", "R", "E", "N", "N", "B", "A", "R">>, <<"P", "A", "R", "T">>, <<"V">>,
     <<"N", "U", "M">>, <<"A">>, <<"p", "r", "e">>, <<"p", "o", "s", "t">>,
     <<"A", "B", "K">>}
EIGEN == <<"E", "I", "G", "E", "N">>

\* if pos: pos += ':' ; pos += tok
AppendTag(pos, tok) == IF pos # <<>> THEN pos \o <<":">> \o tok ELSE tok

\* The while loop over the tokens of one analysis line. i is the 0-based
\* index of the source, so linelist[i] of the source is linelist[i + 1] here.
\* raised: the read of linelist[i] after the asterisk skip is out of range.
RECURSIVE GertwolScan(_, _, _)
GertwolScan(linelist, i, pos) ==
    IF ~(Len(linelist) > i) THEN [pos |-> pos, i |-> i, raised |-> FALSE]
    ELSE LET j == IF linelist[i + 1] = <<"*">> THEN i + 1 ELSE i
         IN  IF ~(Len(linelist) > j) THEN [pos |-> pos, i |-> j, raised |-> TRUE]
             ELSE IF linelist[j + 1] \in StopTags
                  THEN GertwolScan(linelist, j + 1, AppendTag(pos, linelist[j + 1]))
             ELSE IF /\ linelist[j + 1] = <<"S">>
                     /\ Len(linelist) > j + 1
                     /\ linelist[j + 2] = EIGEN
                  THEN [pos |-> pos \o Join(<<":">>, SubSeq(linelist, j + 1, j + 2)),
                        i |-> j + 2, raised |-> FALSE]
             ELSE [pos |-> AppendTag(pos, linelist[j + 1]), i |-> j + 1, raised |-> FALSE]

\* (variant of GertwolLineTag: the flekt rule is an `if`, not an `elif`)
GertwolLineTagFlektAfterZu(linelist) ==
    LET r  == GertwolScan(linelist, 1, <<>>)
        r1 == IF <<"z", "u">> \in Range(linelist)
              THEN [r EXCEPT !.pos = @ \o <<":", "z", "u">>] ELSE r
    IN  IF r.raised THEN r
        ELSE IF StartsWith(r1.pos, <<"A", ":">>) /\ Len(linelist) > r1.i + 1
             THEN [r1 EXCEPT !.pos = @ \o <<":", "f", "l", "e", "k", "t">>]
        ELSE r1

\* The tag of one analysis line after the zu / flekt rules.
GertwolLineTag(linelist) ==
    LET r == GertwolScan(linelist, 1, <<>>)
    IN  IF r.raised THEN r
        ELSE IF <<"z", "u">> \in Range(linelist)
             THEN [r EXCEPT !.pos = @ \o <<":", "z", "u">>]
        ELSE IF StartsWith(r.pos, <<"A", ":">>) /\ Len(linelist) > r.i + 1
             THEN [r EXCEPT !.pos = @ \o <<":", "f", "l", "e", "k", "t">>]
        ELSE r

\* The body of the for loop of convert for one line.
\* st = [ps |-> cache, word |-> current word, raised |-> an exception ended convert]
GertwolConvertLine(st, line) ==
    IF ~Decodable(line) THEN [st EXCEPT !.raised = TRUE]
    ELSE IF StartsWith(line, <<"\"", "<">>)
         THEN [st EXCEPT !.word = SubSeq(line, 3, Len(line) - 2)]
    ELSE LET r == GertwolLineTag(SplitWs(line))
         IN  IF r.raised THEN [st EXCEPT !.raised = TRUE]
             ELSE IF r.pos # <<>> THEN [st EXCEPT !.ps = AddTag(st.ps, st.word, r.pos)]
             ELSE st

RECURSIVE GertwolConvertLines(_, _)
GertwolConvertLines(st, lines) ==
    IF lines = <<>> \/ st.raised THEN st
    ELSE GertwolConvertLines(GertwolConvertLine(st, Head(lines)), Tail(lines))

\* GertwolAnalyzer.convert(analyses)
Gertwol_convert(ps, analyses) ==
    GertwolConvertLines([ps |-> ps, word |-> <<>>, raised |-> FALSE],
                        Split(analyses, <<NL>>))

\* ----------------------------------------------------- Morphisto.convert
\* self.re_mainclass.search(line).group(1) for the pattern <\+(.*?)> :
\* the text between the leftmost "<+" and the first ">" after it;
\* found = FALSE when the pattern does not match (search returns None).
re_mainclass(line) ==
    LET i    == Find(line, <<"<", "+">>)
        rest == SubSeq(line, i + 2, Len(line))
        k    == Find(rest, <<">">>)
    IN  IF i = 0 \/ k = 0 THEN [found |-> FALSE, group |-> <<>>]
        ELSE [found |-> TRUE, group |-> SubSeq(rest, 1, k - 1)]

\* morphisto_getpos.get_true_pos(raw_pos, line): the coarse-to-fine mapping,
\* which returns a pair of tags, each possibly empty.
get_true_pos(raw_pos, line) ==
    IF raw_pos = <<"N", "N">> THEN <<(<<"N", "N">>), <<>>>>
    ELSE IF raw_pos = <<"V">>
         THEN IF Contains(line, <<"<", "I", "n", "f", ">">>)
              THEN <<(<<"V", "V", "I", "N", "F">>), <<"V", "V", "F", "I", "N">>>>
              ELSE <<(<<"V", "V", "F", "I", "N">>), <<>>>>
    ELSE IF raw_pos = <<"A", "D", "J">> THEN <<(<<"A", "D", "J", "A">>), <<"A", "D", "J", "D">>>>
    ELSE <<(<<>>), <<>>>>

\* (variant of MorphistoConvertLine: no try/except around the search)
MorphistoConvertLineNoTry(st, line) ==
    IF ~Decodable(line) THEN [st EXCEPT !.raised = TRUE]
    ELSE IF StartsWith(line, <<">">>)
         THEN [st EXCEPT !.word = SubSeq(line, 3, Len(line))]
    ELSE IF StartsWith(line, <<"n", "o", " ", "r", "e", "s", "u", "l", "t">>) THEN st
    ELSE LET m == re_mainclass(line)
         IN  IF ~m.found THEN [st EXCEPT !.raised = TRUE]
             ELSE LET t    == get_true_pos(m.group, line)
                      ps1  == IF t[1] # <<>> THEN AddTag(st.ps, st.word, t[1]) ELSE st.ps
                      ps2  == IF t[2] # <<>> THEN AddTag(ps1, st.word, t[2]) ELSE ps1
                  IN  [st EXCEPT !.ps = ps2]

\* The body of the for loop of convert for one line.
MorphistoConvertLine(st, line) ==
    IF ~Decodable(line) THEN [st EXCEPT !.raised = TRUE]
    ELSE IF StartsWith(line, <<">">>)
         THEN [st EXCEPT !.word = SubSeq(line, 3, Len(line))]
    ELSE IF StartsWith(line, <<"n", "o", " ", "r", "e", "s", "u", "l", "t">>) THEN st
    ELSE LET m == re_mainclass(line)
         IN  IF ~m.found THEN st
             ELSE LET t    == get_true_pos(m.group, line)
                      ps1  == IF t[1] # <<>> THEN AddTag(st.ps, st.word, t[1]) ELSE st.ps
                      ps2  == IF t[2] # <<>> THEN AddTag(ps1, st.word, t[2]) ELSE ps1
                  IN  [st EXCEPT !.ps = ps2]

RECURSIVE MorphistoConvertLines(_, _)
MorphistoConvertLines(st, lines) ==
    IF lines = <<>> \/ st.raised THEN st
    ELSE MorphistoConvertLines(MorphistoConvertLine(st, Head(lines)), Tail(lines))

\* MorphistoAnalyzer.convert(analyses)
Morphisto_convert(ps, analyses) ==
    MorphistoConvertLines([ps |-> ps, word |-> <<>>, raised |-> FALSE],
                          Split(analyses, <<NL>>))

\* ------------------------------------------------------------ the input
\* Bounds of the model.
MaxLines == 2
StreamLines == 4
BatchSize == 2
MaxDeaths == 1
MaxSockErrs == 1

\* The words of the input stream.
W_Fuesse  == <<"F", "u", "e", "s", "s", "e">>
W_Fuesze  == <<"F", "u", "e", sz, "e">>
W_Fusze == <<"F", uml_u, sz, "e">>
W_Fusse   == <<"F", uml_u, "s", "s", "e">>
W_Strasze == <<"S", "t", "r", "a", sz, "e">>
W_Strasse == <<"S", "t", "r", "a", "s", "s", "e">>
Vocabulary == {W_Fuesse, W_Fuesze, W_Fusze}

\* The words an analyzer may know: its lexicon is a subset of these.
Lexicon == {W_Fusze, W_Fusse, W_Strasse}

\* The lines the input stream may hold: a word, a word with a gold tag, a
\* blank line, a line of bytes that are no UTF-8.
Lines ==
    {w \o <<NL>> : w \in Vocabulary}
    \cup {<<"(", " ", "$", "(", NL>>, <<NL>>, <<InvalidByte, NL>>}

\* The first token of a line that has one.
WordOf(line) == SplitWs(line)[1]

\* ------------------------------------------------------- the analyzers
\* What the Morphisto service answers for one word: the word marker line,
\* then an analysis line (known) or the "no result" line.
MorphistoAnswer(w, known) ==
    <<">", " ">> \o w \o <<NL>>
    \o (IF known
        THEN w \o (IF IsUpper(w[1]) THEN <<"<", "+", "N", "N", ">">>
                   ELSE <<"<", "+", "V", ">", "<", "I", "n", "f", ">">>)
        ELSE <<"n", "o", " ", "r", "e", "s", "u", "l", "t", " ", "f", "o", "r", " ">> \o w)
    \o <<NL>>

RECURSIVE MorphistoReply(_, _)
MorphistoReply(words, K) ==
    IF words = <<>> THEN <<>>
    ELSE MorphistoAnswer(Head(words), Head(words) \in K) \o MorphistoReply(Tail(words), K)

\* The payloads the service may send for a query: any subset of the words is known.
MorphistoReplies(words) ==
    {MorphistoReply(words, K) : K \in SUBSET (Range(words) \cap Lexicon)}

\* What gertwol-wrapper.py prints for one word: the word marker line, then
\* an analysis line when the word is known.
GertwolAnswer(w, known) ==
    <<"\"", "<">> \o w \o <<">", "\"", NL>>
    \o (IF known
        THEN <<TAB, "\"">> \o w \o <<"\"", " ">>
             \o (IF IsUpper(w[1]) THEN <<"S", " ", "F", "E", "M">>
                 ELSE <<"V", " ", "I", "N", "F">>)
             \o <<NL>>
        ELSE <<>>)

RECURSIVE GertwolReply(_, _)
GertwolReply(words, K) ==
    IF words = <<>> THEN <<>>
    ELSE GertwolAnswer(Head(words), Head(words) \in K) \o GertwolReply(Tail(words), K)

GertwolReplies(words) ==
    {GertwolReply(words, K) : K \in SUBSET (Range(words) \cap Lexicon)}

\* ------------------------------------------------------------- the state
VARIABLES
    analyzer,   \* "Morphisto" or "Gertwol": the class __main__ instantiates
    pc,         \* where main() is
    posset,     \* the cache: word -> set of tags
    limit,      \* the number of lines the input stream holds at most
    stream,     \* the lines the input stream may hold
    i,          \* the number of input lines read (enumerate's next index)
    inp,        \* the input lines read so far
    buf,        \* GertwolAnalyzer.main: the lines of the open batch
    final,      \* GertwolAnalyzer.main: the pending analyze is the one after the loop
    out,        \* the lines written to stdout
    queries,    \* the word list of every analyzer invocation so far
    line,       \* process_line: the decoded line being processed
    todo,       \* the word list of the pending analyzer invocation
    p_server,   \* the handle of the owned service process: an index of procs, 0 without
    procs,      \* every process server() has spawned
    port,       \* who listens on (HOST, PORT): 0 nobody, Foreign, or an index of procs
    peer,       \* client: the listener the open connection reached
    wire,       \* client: what the peer has still to send on the open connection
    payload,    \* client: everything the peer sends on the open connection
    analyses,   \* client: the local variable analyses
    terminated, \* the handles terminate() was called on
    ndeaths,    \* service processes that died on their own
    nerr        \* socket errors on a connection to a live listener

vars == <<analyzer, limit, stream, pc, posset, i, inp, buf, final, out, queries, line, todo, p_server,
          procs, port, peer, wire, payload, analyses, terminated, ndeaths, nerr>>

cacheVars == <<posset, queries, todo>>
ioVars == <<i, inp, out>>
batchVars == <<buf, final>>
procVars == <<p_server, procs, port, terminated, ndeaths>>
connVars == <<peer, wire, payload, analyses, nerr>>

\* a listener that is not a process of this client (the server of another run)
Foreign == -1

\* Popen.returncode values of a process that exited on its own
ExitCodes == {0, 1}
SIGTERM == -15

Loading == [state |-> "loading", returncode |-> 0]
Serving == [state |-> "serving", returncode |-> 0]
Exited(code) == [state |-> "exited", returncode |-> code]

Alive(p) == p.state \in {"loading", "serving"}

\* (variant of PollTruthy: the handler never looks at the handle)
PollTruthyAlways(p) == TRUE

\* (variant of PollTruthy: the test is inverted, if not self.p_server.poll())
PollInverted(p) == Alive(p) \/ p.returncode = 0

\* the truth value of Popen.poll(): None while the process runs, else its returncode
PollTruthy(p) == ~Alive(p) /\ p.returncode # 0

\* MorphistoAnalyzer.server(): Popen of the service
server(ps) == Append(ps, Loading)

\* The state after the constructor, for an input stream of at most n lines
\* drawn from S.
InitFor(n, S) ==
    /\ analyzer \in {"Morphisto", "Gertwol"}
    /\ limit = IF analyzer = "Morphisto" THEN n ELSE BatchSize + n
    /\ stream = S
    /\ pc = "main"
    /\ posset = InitPosset
    /\ i = 0
    /\ inp = <<>>
    /\ buf = <<>>
    /\ final = FALSE
    /\ out = <<>>
    /\ queries = <<>>
    /\ line = <<>>
    /\ todo = <<>>
    /\ procs = IF analyzer = "Morphisto" THEN server(<<>>) ELSE <<>>
    /\ p_server = Len(procs)
    /\ port \in IF analyzer = "Morphisto" THEN {0, Foreign} ELSE {0}
    /\ peer = 0
    /\ wire = <<>>
    /\ payload = <<>>
    /\ analyses = <<>>
    /\ terminated = <<>>
    /\ ndeaths = 0
    /\ nerr = 0

InitWith(n) == InitFor(n, Lines)

Init == InitWith(MaxLines)

\* The same program on a longer input stream.
InitStream == InitWith(StreamLines)

\* The same program on an input stream of lines that hold the word Strasze.
StrasseLines == {W_Strasze \o <<NL>>, W_Strasze \o <<" ", "N", "N", NL>>, <<NL>>}

InitStrasse == InitFor(MaxLines, StrasseLines)

\* ------------------------------------------------- MorphistoAnalyzer.main
\* One turn of the loop of main up to the call of client (or to the write,
\* when process_line makes no call): process_line(line).
Morphisto_process_line(l) ==
    /\ analyzer = "Morphisto"
    /\ pc = "main"
    /\ i < limit
    /\ i' = i + 1
    /\ inp' = Append(inp, l)
    /\ IF ~Decodable(l)
       THEN /\ pc' = "aborted"
            /\ UNCHANGED <<posset, out, queries, line, todo>>
       ELSE IF SplitWs(l) = <<>>
       THEN /\ out' = Append(out, <<NL>>)
            /\ UNCHANGED <<pc, posset, queries, line, todo>>
       ELSE IF ~IsMiss(posset, WordOf(l))
       THEN /\ out' = Append(out, create_features(posset, l))
            /\ UNCHANGED <<pc, posset, queries, line, todo>>
       ELSE LET st == Placeholders([ps |-> posset, new |-> <<>>], WordOf(l))
            IN  /\ posset' = st.ps
                /\ todo' = st.new
                /\ queries' = Append(queries, st.new)
                /\ line' = l
                /\ pc' = "client_try"
                /\ UNCHANGED out
    /\ UNCHANGED <<analyzer, limit, stream, batchVars, procVars, connVars>>

\* Popen.terminate() on a handle
Terminate(ps, h) ==
    IF Alive(ps[h]) THEN [ps EXCEPT ![h] = Exited(SIGTERM)] ELSE ps

\* The input stream ends: main leaves the loop and terminates the server.
Morphisto_main_end ==
    /\ analyzer = "Morphisto"
    /\ pc = "main"
    /\ procs' = Terminate(procs, p_server)
    /\ terminated' = Append(terminated, p_server)
    /\ port' = IF port = p_server THEN 0 ELSE port
    /\ pc' = "done"
    /\ UNCHANGED <<analyzer, limit, stream, cacheVars, ioVars, batchVars, line, p_server, ndeaths, connVars>>

\* ----------------------------------------------- MorphistoAnalyzer.client
\* s.connect fails: nobody listens.
client_connect_refused ==
    /\ pc = "client_try"
    /\ port = 0
    /\ pc' = "client_except"
    /\ UNCHANGED <<analyzer, limit, stream, cacheVars, ioVars, batchVars, line, procVars, connVars>>

\* (variant of client_send: analyses is not emptied for the new attempt)
client_send_keeps_analyses ==
    /\ pc = "client_try"
    /\ port # 0
    /\ \E reply \in MorphistoReplies(todo) :
          /\ wire' = reply
          /\ payload' = reply
    /\ peer' = port
    /\ pc' = "client_recv"
    /\ UNCHANGED <<analyzer, limit, stream, cacheVars, ioVars, batchVars, line, procVars, nerr,
                   analyses>>

\* connect, send and shutdown succeed; analyses = ''. The peer has the query
\* and answers it.
client_send ==
    /\ pc = "client_try"
    /\ port # 0
    /\ \E reply \in MorphistoReplies(todo) :
          /\ wire' = reply
          /\ payload' = reply
    /\ peer' = port
    /\ analyses' = <<>>
    /\ pc' = "client_recv"
    /\ UNCHANGED <<analyzer, limit, stream, cacheVars, ioVars, batchVars, line, procVars, nerr>>

\* connect succeeds and send raises socket.error
client_send_error ==
    /\ pc = "client_try"
    /\ port # 0
    /\ nerr < MaxSockErrs
    /\ nerr' = nerr + 1
    /\ pc' = "client_except"
    /\ UNCHANGED <<analyzer, limit, stream, cacheVars, ioVars, batchVars, line, procVars,
                   peer, wire, payload, analyses>>

\* the sizes recv may return: all the peer has left, or the first half of a
\* payload of which nothing was received yet
ChunkSizes ==
    {Len(wire)} \cup (IF analyses = <<>> /\ Len(wire) > 1 THEN {Len(wire) \div 2} ELSE {})

\* data = s.recv(4096) returns data; analyses += data
client_recv ==
    /\ pc = "client_recv"
    /\ wire # <<>>
    /\ port = peer
    /\ \E k \in ChunkSizes :
          /\ analyses' = analyses \o SubSeq(wire, 1, k)
          /\ wire' = SubSeq(wire, k + 1, Len(wire))
    /\ UNCHANGED <<analyzer, limit, stream, pc, cacheVars, ioVars, batchVars, line, procVars,
                   peer, payload, nerr>>

\* s.recv raises socket.error: the peer is gone before it sent everything, or
\* the connection fails
client_recv_error ==
    /\ pc = "client_recv"
    /\ wire # <<>>
    /\ port # peer \/ nerr < MaxSockErrs
    /\ nerr' = IF port = peer THEN nerr + 1 ELSE nerr
    /\ wire' = <<>>
    /\ pc' = "client_except"
    /\ UNCHANGED <<analyzer, limit, stream, cacheVars, ioVars, batchVars, line, procVars,
                   peer, payload, analyses>>

\* except socket.error: poll the handle and start a new server if it stopped
client_except ==
    /\ pc = "client_except"
    /\ IF PollTruthy(procs[p_server])
       THEN /\ procs' = server(procs)
            /\ p_server' = Len(procs) + 1
       ELSE UNCHANGED <<procs, p_server>>
    /\ pc' = "client_sleep"
    /\ UNCHANGED <<analyzer, limit, stream, cacheVars, ioVars, batchVars, line, port, terminated,
                   ndeaths, connVars>>

\* time.sleep(0.1), then the next turn of while True
client_sleep ==
    /\ pc = "client_sleep"
    /\ pc' = "client_try"
    /\ UNCHANGED <<analyzer, limit, stream, cacheVars, ioVars, batchVars, line, procVars, connVars>>

\* recv returns '' (the peer closed): client returns analyses; process_line
\* converts them and returns create_features(line), which main writes.
client_return ==
    /\ pc = "client_recv"
    /\ wire = <<>>
    /\ LET r == Morphisto_convert(posset, analyses)
       IN  /\ posset' = r.ps
           /\ IF r.raised
              THEN pc' = "aborted" /\ UNCHANGED out
              ELSE pc' = "main" /\ out' = Append(out, create_features(r.ps, line))
    /\ UNCHANGED <<analyzer, limit, stream, i, inp, queries, todo, batchVars, line, procVars, connVars>>

\* ------------------------------------------------ the service processes
\* A loading server binds the free port and listens.
server_ready(k) ==
    /\ pc \notin {"done", "aborted"}
    /\ procs[k].state = "loading"
    /\ port = 0
    /\ procs' = [procs EXCEPT ![k] = Serving]
    /\ port' = k
    /\ UNCHANGED <<analyzer, limit, stream, pc, cacheVars, ioVars, batchVars, line, p_server,
                   terminated, ndeaths, connVars>>

\* A loading server finds the port taken and exits.
server_bind_fails(k, code) ==
    /\ pc \notin {"done", "aborted"}
    /\ procs[k].state = "loading"
    /\ port # 0
    /\ procs' = [procs EXCEPT ![k] = Exited(code)]
    /\ UNCHANGED <<analyzer, limit, stream, pc, cacheVars, ioVars, batchVars, line, p_server, port,
                   terminated, ndeaths, connVars>>

\* A running server exits on its own.
server_dies(k, code) ==
    /\ pc \notin {"done", "aborted"}
    /\ Alive(procs[k])
    /\ ndeaths < MaxDeaths
    /\ ndeaths' = ndeaths + 1
    /\ procs' = [procs EXCEPT ![k] = Exited(code)]
    /\ port' = IF port = k THEN 0 ELSE port
    /\ UNCHANGED <<analyzer, limit, stream, pc, cacheVars, ioVars, batchVars, line, p_server,
                   terminated, connVars>>

\* The server of another run, which listened on the port, ends.
foreign_stops ==
    /\ pc \notin {"done", "aborted"}
    /\ port = Foreign
    /\ port' = 0
    /\ UNCHANGED <<analyzer, limit, stream, pc, cacheVars, ioVars, batchVars, line, p_server, procs,
                   terminated, ndeaths, connVars>>

\* --------------------------------------------------- GertwolAnalyzer
\* The for loop of analyze: the placeholders and the query list of a batch.
RECURSIVE AnalyzeLines(_, _)
AnalyzeLines(st, inlines) ==
    IF inlines = <<>> THEN st
    ELSE LET linelist == SplitWs(Head(inlines))
         IN  IF linelist = <<>> THEN AnalyzeLines(st, Tail(inlines))
             ELSE IF IsMiss(st.ps, linelist[1])
                  THEN AnalyzeLines(Placeholders(st, linelist[1]), Tail(inlines))
             ELSE AnalyzeLines(st, Tail(inlines))

\* (variant of WriteFeatures: blank lines are skipped, as analyze skips them)
WriteFeaturesWordsOnly(ps, b) ==
    LET words == SelectSeq(b, LAMBDA l : SplitWs(l) # <<>>)
    IN  [j \in 1..Len(words) |-> create_features(ps, words[j])]

\* for line in buf: sys.stdout.write(self.create_features(line))
WriteFeatures(ps, b) == [j \in 1..Len(b) |-> create_features(ps, b[j])]

\* self.analyze(b) up to the call of the subprocess, and, when there is
\* nothing to ask, the write of the batch that follows it.
Gertwol_analyze(b, last) ==
    LET st == AnalyzeLines([ps |-> posset, new |-> <<>>], b)
    IN  /\ posset' = st.ps
        /\ IF st.new # <<>>
           THEN /\ todo' = st.new
                /\ queries' = Append(queries, st.new)
                /\ buf' = b
                /\ final' = last
                /\ pc' = "batch_call"
                /\ UNCHANGED out
           ELSE /\ out' = out \o WriteFeatures(st.ps, b)
                /\ buf' = <<>>
                /\ pc' = IF last THEN "done" ELSE "main"
                /\ UNCHANGED <<todo, queries, final>>

\* One turn of the loop of main: read a line, and every BatchSize lines
\* analyze and write the batch.
Gertwol_main_line(l) ==
    /\ analyzer = "Gertwol"
    /\ pc = "main"
    /\ i < limit
    /\ i' = i + 1
    /\ inp' = Append(inp, l)
    /\ IF ~Decodable(l)
       THEN /\ pc' = "aborted"
            /\ UNCHANGED <<cacheVars, out, batchVars>>
       ELSE IF i # 0 /\ i % BatchSize = 0
       THEN Gertwol_analyze(Append(buf, l), FALSE)
       ELSE /\ buf' = Append(buf, l)
            /\ UNCHANGED <<pc, cacheVars, out, final>>
    /\ UNCHANGED <<analyzer, limit, stream, line, procVars, connVars>>

\* The input stream ends: the rest of the buffer is analyzed and written.
Gertwol_main_end ==
    /\ analyzer = "Gertwol"
    /\ pc = "main"
    /\ Gertwol_analyze(buf, TRUE)
    /\ UNCHANGED <<analyzer, limit, stream, i, inp, line, procVars, connVars>>

\* The subprocess answers: communicate returns, convert runs, and main
\* writes the features of the batch.
Gertwol_batch_return ==
    /\ pc = "batch_call"
    /\ \E reply \in GertwolReplies(todo) :
          LET r == Gertwol_convert(posset, reply)
          IN  /\ posset' = r.ps
              /\ IF r.raised
                 THEN pc' = "aborted" /\ UNCHANGED <<out, buf>>
                 ELSE /\ out' = out \o WriteFeatures(r.ps, buf)
                      /\ buf' = <<>>
                      /\ pc' = IF final THEN "done" ELSE "main"
    /\ UNCHANGED <<analyzer, limit, stream, i, inp, queries, todo, final, line, procVars, connVars>>

\* Popen of gertwol-wrapper.py raises OSError: main ends with the error.
Gertwol_batch_fails ==
    /\ pc = "batch_call"
    /\ pc' = "aborted"
    /\ UNCHANGED <<analyzer, limit, stream, cacheVars, ioVars, batchVars, line, procVars, connVars>>

\* ---------------------------------------------------- the specification
Next ==
    \/ \E l \in stream : Morphisto_process_line(l)
    \/ Morphisto_main_end
    \/ client_connect_refused
    \/ client_send
    \/ client_send_error
    \/ client_recv
    \/ client_recv_error
    \/ client_except
    \/ client_sleep
    \/ client_return
    \/ \E k \in 1..Len(procs) : server_ready(k)
    \/ \E k \in 1..Len(procs), code \in ExitCodes : server_bind_fails(k, code)
    \/ \E k \in 1..Len(procs), code \in ExitCodes : server_dies(k, code)
    \/ foreign_stops
    \/ \E l \in stream : Gertwol_main_line(l)
    \/ Gertwol_main_end
    \/ Gertwol_batch_return
    \/ Gertwol_batch_fails

Spec == Init /\ [][Next]_vars

SpecStream == InitStream /\ [][Next]_vars

SpecStrasse == InitStrasse /\ [][Next]_vars

\* The steps of the while loop of client(): the interpreter runs them
\* whenever they can run.
ClientStep ==
    \/ client_connect_refused
    \/ client_send
    \/ client_send_error
    \/ client_recv
    \/ client_recv_error
    \/ client_except
    \/ client_sleep

\* A server that was started and finds the port free comes to listen.
ServerStarts == \E k \in 1..Len(procs) : server_ready(k)

FairSpec == Init /\ [][Next]_vars /\ WF_vars(ClientStep) /\ WF_vars(ServerStarts)

\* ------------------------------------------------ the functions by themselves
\* The variables a call of a single function does not use.
unitVars == <<limit, stream, i, inp, buf, final, queries, p_server, procs, port, peer, wire,
              payload, terminated, ndeaths, nerr>>

\* No pipeline runs: nothing is read, no process and no connection exist.
UnitInit ==
    /\ limit = 0
    /\ stream = {}
    /\ i = 0
    /\ inp = <<>>
    /\ buf = <<>>
    /\ final = FALSE
    /\ queries = <<>>
    /\ procs = <<>>
    /\ p_server = 0
    /\ port = 0
    /\ peer = 0
    /\ wire = <<>>
    /\ payload = <<>>
    /\ terminated = <<>>
    /\ ndeaths = 0
    /\ nerr = 0

\* the sequences over S of length 1..n
SeqsUpTo(S, n) == UNION {[1..k -> S] : k \in 1..n}

\* The words spelling_variations is called on.
MaxWordLen == 3
WordAlphabet == {"A", "a", "e", "s", sz, "u"}
Words == SeqsUpTo(WordAlphabet, MaxWordLen)

InitVariations ==
    /\ UnitInit
    /\ analyzer = "none"
    /\ pc = "call"
    /\ posset = InitPosset
    /\ line \in Words
    /\ todo = <<>>
    /\ analyses = <<>>
    /\ out = <<>>

\* list(spelling_variations(line))
Call_spelling_variations ==
    /\ pc = "call"
    /\ analyzer = "none"
    /\ out' = spelling_variations(line)
    /\ pc' = "returned"
    /\ UNCHANGED <<analyzer, posset, line, todo, analyses, unitVars>>

SpecVariations == InitVariations /\ [][Call_spelling_variations]_vars

\* The cache states and lines create_features is called on: the seeds, and
\* for a word and two of its variants each no entry or an entry with some of
\* the tags of a pool.
MaxTags == 12
Tag(k) == <<UpperSeq[((k * 7) % 26) + 1], LowerSeq[k]>>
FirstTags(k) == {Tag(j) : j \in 1..k}
LastTags(k) == {Tag(j) : j \in (MaxTags - k + 1)..MaxTags}

\* the function f extended by the entry w :> e[1] when e is not empty
WithEntry(f, w, e) == IF e = <<>> THEN f ELSE f @@ (w :> e[1])

Caches ==
    {WithEntry(WithEntry(WithEntry(InitPosset, W_Fuesse, a), W_Fuesze, b), W_Fusse, c) :
        a \in {<<>>} \cup {<<FirstTags(k)>> : k \in 0..MaxTags},
        b \in {<<>>} \cup {<<LastTags(k)>> : k \in 0..MaxTags},
        c \in {<<>>, <<{}>>, <<{Tag(1)}>>}}

FeatureLines ==
    {W_Fuesse \o <<NL>>, W_Fuesse \o <<TAB, "N", "N", NL>>, <<"(", NL>>, <<" ", NL>>}

InitFeatures ==
    /\ UnitInit
    /\ analyzer = "none"
    /\ pc = "call"
    /\ posset \in Caches
    /\ line \in FeatureLines
    /\ todo = <<>>
    /\ analyses = <<>>
    /\ out = <<>>

\* sys.stdout.write(self.create_features(line))
Call_create_features ==
    /\ pc = "call"
    /\ analyzer = "none"
    /\ out' = <<create_features(posset, line)>>
    /\ posset' = CacheAfterFeatures(posset, line)
    /\ pc' = "returned"
    /\ UNCHANGED <<analyzer, line, todo, analyses, unitVars>>

SpecFeatures == InitFeatures /\ [][Call_create_features]_vars

\* The two normalizers by themselves: convert is called on a response to
\* the query for one word, with the placeholders of the query in the cache.
ConvertQuery == Placeholders([ps |-> InitPosset, new |-> <<>>], W_Fusze)

\* The responses of gertwol-wrapper.py: a word marker line (none, the one of
\* the queried word, the one of another word), an analysis line of a lemma
\* and up to MaxTokens tokens, and possibly one more analysis line.
MaxTokens == 4
GertwolTokenPool == {<<"*">>, <<"A">>, <<"V">>, <<"S">>, EIGEN, <<"z", "u">>, <<"P", "O", "S">>}
GertwolMarkerLine(w) == <<"\"", "<">> \o w \o <<">", "\"", NL>>
GertwolAnalysisLine(toks) ==
    <<TAB>> \o Join(<<" ">>, <<(<<"\"", "x", "\"">>)>> \o toks) \o <<NL>>
GertwolResponses ==
    {m \o GertwolAnalysisLine(toks) \o tl :
        m \in {<<>>, GertwolMarkerLine(W_Fusze), GertwolMarkerLine(W_Fuesse)},
        toks \in {<<>>} \cup SeqsUpTo(GertwolTokenPool, MaxTokens),
        tl \in {<<>>, GertwolAnalysisLine(<<(<<"V">>), <<"I", "N", "F">>>>)}}

\* The responses of the service: up to MaxRespLines lines, each a word
\* marker line, a "no result" line, a line without a main class, or an
\* analysis with a main class.
MaxRespLines == 4
MorphistoLinePool ==
    {<<">", " ">> \o W_Fusze,
     <<">", " ">> \o W_Fuesse,
     <<"n", "o", " ", "r", "e", "s", "u", "l", "t", " ", "f", "o", "r", " ">> \o W_Fusze,
     W_Fusze,
     W_Fusze \o <<"<", "+", "N", "N">>,
     W_Fusze \o <<"<", "+", "N", "N", ">">>,
     W_Fusze \o <<"<", "+", "A", "D", "J", ">">>,
     W_Fusze \o <<"<", "+", "X", "Y", ">">>}
MorphistoResponses ==
    {Join(<<NL>>, ls) \o <<NL>> : ls \in SeqsUpTo(MorphistoLinePool, MaxRespLines)}

InitConvert ==
    /\ UnitInit
    /\ analyzer \in {"Gertwol", "Morphisto"}
    /\ pc = "call"
    /\ posset = ConvertQuery.ps
    /\ todo = ConvertQuery.new
    /\ line = <<>>
    /\ out = <<>>
    /\ analyses \in IF analyzer = "Gertwol" THEN GertwolResponses ELSE MorphistoResponses

\* GertwolAnalyzer.convert(analyses)
Call_Gertwol_convert ==
    /\ analyzer = "Gertwol"
    /\ pc = "call"
    /\ LET r == Gertwol_convert(posset, analyses)
       IN  /\ posset' = r.ps
           /\ pc' = IF r.raised THEN "aborted" ELSE "returned"
    /\ UNCHANGED <<analyzer, line, todo, analyses, out, unitVars>>

\* MorphistoAnalyzer.convert(analyses)
Call_Morphisto_convert ==
    /\ analyzer = "Morphisto"
    /\ pc = "call"
    /\ LET r == Morphisto_convert(posset, analyses)
       IN  /\ posset' = r.ps
           /\ pc' = IF r.raised THEN "aborted" ELSE "returned"
    /\ UNCHANGED <<analyzer, line, todo, analyses, out, unitVars>>

NextConvert == Call_Gertwol_convert \/ Call_Morphisto_convert

SpecConvert == InitConvert /\ [][NextConvert]_vars

\* ================================================================ claims
ClientPcs == {"client_try", "client_recv", "client_except", "client_sleep"}

\* the places of the words in the query lists so far
QueryPlaces == UNION {{<<a, b>> : b \in 1..Len(queries[a])} : a \in 1..Len(queries)}

QueriedWords == {queries[pl[1]][pl[2]] : pl \in QueryPlaces}

\* the input lines read so far that hold a word and whose feature line is written
WrittenWordLines ==
    {j \in 1..Len(out) : Decodable(inp[j]) /\ SplitWs(inp[j]) # <<>>}

\* the ten tag slots of a feature line
TagSlots(o) == SubSeq(Split(SubSeq(o, 1, Len(o) - 1), <<TAB>>), 5, 14)

\* ------------------------------------------------------------------ C1
\* C1: every word is passed to the analyzer in at most one invocation: the
\* query lists so far never hold a word twice, and a word put into a new
\* query list was not a key of the cache before (seeded, looked up, or
\* inserted as a variant).
C1_NoDuplicateQuery ==
    \A p1 \in QueryPlaces, p2 \in QueryPlaces :
        p1 # p2 => queries[p1[1]][p1[2]] # queries[p2[1]][p2[2]]

C1_NewQueryWasMiss ==
    queries' # queries =>
        /\ Len(queries') = Len(queries) + 1
        /\ \A b \in 1..Len(queries'[Len(queries')]) :
              queries'[Len(queries')][b] \notin DOMAIN posset

C1_AtMostOneLookup == []C1_NoDuplicateQuery /\ [][C1_NewQueryWasMiss]_vars

\* a word was read twice, was sent to the analyzer, and both lines are written
C1_Witness ==
    \E j \in WrittenWordLines, k \in WrittenWordLines :
        /\ j < k
        /\ WordOf(inp[j]) = WordOf(inp[k])
        /\ WordOf(inp[j]) \in QueriedWords

\* ------------------------------------------------------------------ C2
\* C2: the tag slots of the feature line of a later occurrence of a word are
\* those of its first occurrence, whatever is looked up in between.
C2_SameSlotsOnRepeat ==
    \A j \in WrittenWordLines, k \in WrittenWordLines :
        (j < k /\ WordOf(inp[j]) = WordOf(inp[k]))
            => TagSlots(out[j]) = TagSlots(out[k])

\* ------------------------------------------------------------------ C3
\* C3: a key of the cache stays a key, and its tag set only grows: no step
\* removes a key, removes a tag or resets an entry.
C3_Step ==
    \A w \in DOMAIN posset : w \in DOMAIN posset' /\ posset[w] \subseteq posset'[w]

C3_CacheMonotone == [][C3_Step]_vars

\* a queried word has tags, and a later query has been prepared after that
C3_Witness ==
    /\ Len(queries) >= 2
    /\ \E w \in Range(queries[1]) : posset[w] # {}

\* ------------------------------------------------------------------ C4
\* C4: while an analyzer invocation is pending (client() or the batch
\* subprocess), every word of its query list is a key of the cache with the
\* empty set.
C4_PlaceholderBeforeCall ==
    pc \in ClientPcs \cup {"batch_call"} =>
        \A w \in Range(todo) : w \in DOMAIN posset /\ posset[w] = {}

\* a call is pending for a word and at least one of its variants
C4_Witness == pc = "client_try" /\ Len(todo) >= 2

\* ------------------------------------------------------------------ C5
\* C5: when a connection attempt failed and the owned process has exited,
\* with any exit status, the handler spawns a process and replaces p_server.
C5_RespawnOnAnyExit ==
    [][(pc = "client_except" /\ pc' = "client_sleep" /\ ~Alive(procs[p_server]))
        => (Len(procs') = Len(procs) + 1 /\ p_server' # p_server)]_vars

\* ------------------------------------------------------------------ C6
\* C6: when a connection attempt failed and the owned process still runs,
\* the handler spawns nothing and keeps p_server, and the client sleeps and
\* tries again.
C6_Step ==
    /\ (pc = "client_except" /\ pc' = "client_sleep" /\ Alive(procs[p_server]))
           => (procs' = procs /\ p_server' = p_server)
    /\ (pc = "client_except" /\ pc' # pc) => pc' = "client_sleep"
    /\ (pc = "client_sleep" /\ pc' # pc)
           => (pc' = "client_try" /\ procs' = procs /\ p_server' = p_server)

C6_RetryWithoutSpawn == [][C6_Step]_vars

\* the handler ran while the first process was still loading
C6_Witness ==
    pc = "client_sleep" /\ Len(procs) = 1 /\ procs[p_server].state = "loading"

\* ------------------------------------------------------------------ C7
\* C7: at most one process spawned by the instance is alive, and a process
\* is spawned only when the owned one has exited.
C7_OneAlive == Cardinality({k \in 1..Len(procs) : Alive(procs[k])}) <= 1

C7_SpawnStep == Len(procs') > Len(procs) => ~Alive(procs[p_server])

C7_AtMostOneLive == []C7_OneAlive /\ [][C7_SpawnStep]_vars

\* a replacement process runs
C7_Witness == Len(procs) >= 2 /\ Alive(procs[p_server])

\* ------------------------------------------------------------------ C8
\* C8: when main() of MorphistoAnalyzer has ended, by the end of the input or
\* by an error, terminate was called exactly once, on the owned handle, and
\* the owned process is not alive.
C8_TerminateOnceAtEnd ==
    (analyzer = "Morphisto" /\ pc \in {"done", "aborted"})
        => (terminated = <<p_server>> /\ ~Alive(procs[p_server]))

\* ------------------------------------------------------------------ C9
\* C9: when a client() call is pending, the owned process is dead and nobody
\* listens on the port, the call eventually comes to its return: recv has
\* returned '' after an exchange, or process_line already went on.
C9_DeadService ==
    pc \in ClientPcs /\ ~Alive(procs[p_server]) /\ port = 0

C9_AtReturn == (pc = "client_recv" /\ wire = <<>>) \/ pc \notin ClientPcs

C9_DeadServiceRecovered == C9_DeadService ~> C9_AtReturn

\* ----------------------------------------------------------------- C10
\* C10: a client() call ends only by the return at the end of an exchange
\* whose peer closed, with the whole payload of that exchange and nothing of
\* an earlier attempt; a socket error leads to the handler, the sleep and a
\* new attempt.
C10_Step ==
    /\ (pc \in ClientPcs /\ pc' \notin ClientPcs)
           => (pc = "client_recv" /\ wire = <<>> /\ analyses = payload)
    /\ (pc \in {"client_try", "client_recv"} /\ pc' \notin {"client_try", "client_recv"})
           => (pc' = "client_except" \/ (pc = "client_recv" /\ wire = <<>>))

C10_ReturnsCompletePayload == [][C10_Step]_vars

\* a call returned after a socket error on a connection to a live peer
C10_Witness ==
    /\ pc = "main"
    /\ nerr > 0
    /\ payload # <<>>
    /\ analyses = payload
    /\ Len(out) = Len(inp)

\* ----------------------------------------------------------------- C11
\* process_line has returned for the word Strasze, and the service had
\* answered its one query with an analysis under Strasse only.
C11_StrasseOnlyUnderSs ==
    /\ analyzer = "Morphisto"
    /\ pc = "main"
    /\ queries = <<(<<W_Strasze, W_Strasse>>)>>
    /\ payload = MorphistoReply(<<W_Strasze, W_Strasse>>, {W_Strasse})

\* C11 as stated: for the input word Strasze and an analyzer that answers
\* under Strasse only, after process_line the cache entry keyed Strasze
\* itself holds the tags of the analysis of Strasse.
C11_EntryItselfPopulated ==
    C11_StrasseOnlyUnderSs =>
        (posset[W_Strasse] # {} /\ posset[W_Strasse] \subseteq posset[W_Strasze])

\* C11 as amended: for the input word Strasze and an analyzer that answers
\* under Strasse only, after process_line the tags of the analysis are in
\* the cache entry keyed Strasse, the entry keyed Strasze is empty, and the
\* feature line written for Strasze carries the tags in its tag slots.
C11_TagsReachFeatureLine ==
    C11_StrasseOnlyUnderSs =>
        /\ posset[W_Strasse] = {<<"N", "N">>}
        /\ posset[W_Strasze] = {}
        /\ \A j \in WrittenWordLines :
              TagSlots(out[j]) = <<(<<"N", "N">>)>> \o [k \in 1..9 |-> Sentinel]

\* the line Strasze was read twice and both feature lines are written
C11_Witness ==
    /\ C11_StrasseOnlyUnderSs
    /\ Cardinality(WrittenWordLines) = 2

\* ----------------------------------------------------------------- C12
\* the rules of the variant generator: a digraph and what replaces it
C12_Rules ==
    {<<(<<"s", "s">>), <<sz>>>>, <<(<<sz>>), <<"s", "s">>>>, <<(<<"a", "e">>), <<uml_a>>>>,
     <<(<<"o", "e">>), <<uml_o>>>>, <<(<<"u", "e">>), <<uml_u>>>>}

C12_PrefixRules ==
    {<<(<<"A", "e">>), <<Uml_A>>>>, <<(<<"O", "e">>), <<Uml_O>>>>, <<(<<"U", "e">>), <<Uml_U>>>>}

\* v is word with the occurrence of old at position p replaced by new
C12_ReplacedAt(word, v, p, old, new) ==
    /\ p + Len(old) - 1 <= Len(word)
    /\ SubSeq(word, p, p + Len(old) - 1) = old
    /\ v = SubSeq(word, 1, p - 1) \o new \o SubSeq(word, p + Len(old), Len(word))

C12_OneReplacement(word, v) ==
    \/ \E r \in C12_Rules : \E p \in 1..Len(word) : C12_ReplacedAt(word, v, p, r[1], r[2])
    \/ \E r \in C12_PrefixRules : C12_ReplacedAt(word, v, 1, r[1], r[2])

\* C12: every variant spelling_variations yields is the whole input word
\* with exactly one occurrence of a digraph replaced: the text before and
\* after the replaced span is kept, also when the digraph occurs more than
\* once.
C12_VariantIsOneReplacement ==
    pc = "returned" => \A k \in 1..Len(out) : C12_OneReplacement(line, out[k])

\* ----------------------------------------------------------------- C13
\* the tags the claim names: the set of the word, if it is a key, united
\* with the sets of those of its variants that are keys
C13_RealTags(word) ==
    UNION {posset[w] : w \in ({word} \cup Range(spelling_variations(word))) \cap DOMAIN posset}

\* the tab-separated fields of a written line
C13_Fields(o) == Split(SubSeq(o, 1, Len(o) - 1), <<TAB>>)

\* C13: the line create_features produces for a line with a word has 4
\* fields, then exactly 10 tag slots, then the gold tag if the input had
\* one. The slots hold the real tags in ascending order, only the 10
\* smallest when there are more, and the sentinel ZZZ in every slot left.
C13_TenSortedPaddedSlots ==
    (pc = "returned" /\ SplitWs(line) # <<>>) =>
        LET word   == SplitWs(line)[1]
            fields == C13_Fields(out[1])
            slots  == TagSlots(out[1])
            real   == C13_RealTags(word)
            n      == IF Cardinality(real) > 10 THEN 10 ELSE Cardinality(real)
        IN  /\ Len(fields) = 14 + (IF Len(SplitWs(line)) > 1 THEN 1 ELSE 0)
            /\ Len(slots) = 10
            /\ \A k \in 1..n : slots[k] \in real
            /\ \A k \in 1..n, l \in 1..n : k < l => StrLess(slots[k], slots[l])
            /\ \A t \in real \ {slots[k] : k \in 1..n} :
                  \A k \in 1..n : StrLess(slots[k], t)
            /\ \A k \in (n + 1)..10 : slots[k] = Sentinel

\* a line was produced for a word with more than 10 tags, some of them
\* only under a variant
C13_Witness ==
    /\ pc = "returned"
    /\ line = W_Fuesse \o <<NL>>
    /\ Cardinality(C13_RealTags(W_Fuesse)) > 10
    /\ W_Fuesse \in DOMAIN posset
    /\ Cardinality(posset[W_Fuesse]) < 10
    /\ TagSlots(out[1])[10] # Sentinel

\* ----------------------------------------------------------------- C15
\* C15: a call of create_features leaves the cache as it was: no key is
\* added and no entry changes, whether or not the word and its variants are
\* keys.
C15_Step == (pc = "call" /\ pc' = "returned") => posset' = posset

C15_CacheUnchanged == [][C15_Step]_vars

\* create_features returned for a word that is no key, with one variant
\* that is a key with tags and one variant that is no key
C15_Witness ==
    /\ pc = "returned"
    /\ line = W_Fuesse \o <<NL>>
    /\ W_Fuesse \notin DOMAIN posset
    /\ W_Fusse \notin DOMAIN posset
    /\ W_Fuesze \in DOMAIN posset
    /\ posset[W_Fuesze] # {}
    /\ TagSlots(out[1])[1] # Sentinel

\* ----------------------------------------------------------------- C14
\* the tag the table of __init__ gives a symbol
C14_SeedTag(w) ==
    IF w \in SeedOpen THEN <<"$", "(">> ELSE IF w \in SeedComma THEN <<"$", ",">> ELSE <<"$", ".">>

C14_SeedSlots(w) == <<C14_SeedTag(w)>> \o [k \in 1..9 |-> Sentinel]

\* the line o, written for the symbol w, has the fields w, w, lc or uc, y or
\* n, and then the slots of w, which end the line or stand before a gold tag
C14_WrittenSlots(o, w) ==
    LET posstring == Join(<<TAB>>, C14_SeedSlots(w))
        k         == 2 * Len(w) + 7
    IN  /\ Len(o) > k + Len(posstring)
        /\ SubSeq(o, 1, 2 * Len(w) + 2) = w \o <<TAB>> \o w \o <<TAB>>
        /\ SubSeq(o, k + 1, k + Len(posstring)) = posstring
        /\ o[k + Len(posstring) + 1] \in {TAB, NL}

\* C14: at every point of a run, every symbol of the punctuation table is a
\* key of the cache with exactly its seeded tag and was never sent to an
\* analyzer; whenever main is about to read a line, a line with that symbol
\* gets the seeded tag and nine sentinels as its tag slots; every feature
\* line written for such a line has these slots.
C14_SeedsKeepTheirTags ==
    /\ QueriedWords \cap (SeedOpen \cup SeedComma \cup SeedStop) = {}
    /\ \A w \in SeedOpen \cup SeedComma \cup SeedStop :
          /\ w \in DOMAIN posset
          /\ posset[w] = {C14_SeedTag(w)}
          /\ pc = "main" => PosSlots(posset, w) = C14_SeedSlots(w)
    /\ \A j \in 1..Len(out) :
          LET linelist == SplitWs(inp[j])
          IN  (linelist # <<>> /\ linelist[1] \in SeedOpen \cup SeedComma \cup SeedStop)
                  => C14_WrittenSlots(out[j], linelist[1])

\* the feature line of a symbol is written after a lookup that brought tags
C14_Witness ==
    \E j \in WrittenWordLines, k \in WrittenWordLines :
        /\ j < k
        /\ WordOf(inp[k]) \in SeedOpen
        /\ WordOf(inp[j]) \in QueriedWords
        /\ \E w \in QueriedWords : posset[w] # {}

\* ----------------------------------------------------------------- C16
\* the feature line o is the one of the input line l: a bare newline for a
\* blank line, else a line of 14 tab-separated fields, and one more for the
\* gold tag of l if it has one, that starts with the word of l and ends
\* with the gold tag
C16_LineOf(o, l) ==
    LET linelist == SplitWs(l)
    IN  IF linelist = <<>> THEN o = <<NL>>
        ELSE LET gold == IF Len(linelist) > 1 THEN <<TAB>> \o linelist[2] ELSE <<>>
                 tail == gold \o <<NL>>
             IN  /\ StartsWith(o, linelist[1] \o <<TAB>>)
                 /\ Len(o) >= Len(tail)
                 /\ SubSeq(o, Len(o) - Len(tail) + 1, Len(o)) = tail
                 /\ Cardinality({k \in 1..Len(o) : o[k] = TAB})
                        = 13 + (IF gold = <<>> THEN 0 ELSE 1)

C16_Aligned ==
    /\ Len(out) <= Len(inp)
    /\ \A j \in 1..Len(out) : C16_LineOf(out[j], inp[j])
    /\ pc = "done" => Len(out) = Len(inp)

C16_BatchStep ==
    (analyzer = "Gertwol" /\ Len(out') > Len(out)) =>
        \A j \in (Len(out) + 1)..Len(out') :
            SplitWs(inp'[j]) # <<>> => WordOf(inp'[j]) \in DOMAIN posset

\* C16: in both pipelines the j-th line written is the feature line of the
\* j-th line read, and when main has come to its end every line read has
\* its line written; in the batch pipeline the word of a line is a key of
\* the cache when its feature line is written.
C16_OneLinePerInputInOrder == []C16_Aligned /\ [][C16_BatchStep]_vars

\* the batch pipeline has ended on a stream that is longer than a batch, is
\* no multiple of the batch size and holds a blank line and a looked up word
C16_Witness ==
    /\ analyzer = "Gertwol"
    /\ pc = "done"
    /\ Len(inp) > BatchSize
    /\ Len(inp) % BatchSize # 0
    /\ <<NL>> \in Range(inp)
    /\ queries # <<>>
    /\ Len(out) = Len(inp)

\* ----------------------------------------------------------------- C17
\* the response without its asterisk tokens
C17_WithoutAsterisks(text) == Join(<<>>, Split(text, <<" ", "*">>))

\* the tags convert has put into the cache
ConvertedTags == UNION {posset[w] : w \in DOMAIN posset \ DOMAIN InitPosset}

\* a tag without the marker :zu or :flekt at its end
C17_Scanned(t) ==
    LET n == Len(t)
    IN  IF n >= 3 /\ SubSeq(t, n - 2, n) = <<":", "z", "u">> THEN SubSeq(t, 1, n - 3)
        ELSE IF n >= 6 /\ SubSeq(t, n - 5, n) = <<":", "f", "l", "e", "k", "t">>
             THEN SubSeq(t, 1, n - 6)
        ELSE t

\* the tags convert puts into the cache for the response without its asterisks
C17_TagsWithoutAsterisks ==
    LET ps == Gertwol_convert(ConvertQuery.ps, C17_WithoutAsterisks(analyses)).ps
    IN  UNION {ps[w] : w \in DOMAIN ps \ DOMAIN InitPosset}

C17_NoAbort == (analyzer = "Gertwol" /\ pc # "call") => pc = "returned"

C17_NoAsteriskInTag ==
    (analyzer = "Gertwol" /\ pc # "call") => \A t \in ConvertedTags : "*" \notin Range(t)

C17_ScanGoesOn ==
    (analyzer = "Gertwol" /\ pc = "returned") =>
        {C17_Scanned(t) : t \in ConvertedTags}
            = {C17_Scanned(t) : t \in C17_TagsWithoutAsterisks}

\* C17: the batch normalizer discards an asterisk token wherever it stands:
\* convert comes to its end, no cached tag has an asterisk, and the scan
\* of each line gives the tag it gives for the line without its asterisks.
C17_AsteriskDiscarded == C17_NoAbort /\ C17_NoAsteriskInTag /\ C17_ScanGoesOn

\* ----------------------------------------------------------------- C19
\* C19: when a normalizer has run, every key of the cache is a seeded
\* symbol or a word of the query: convert has created no key.
C19_NoKeyCreated ==
    pc # "call" => DOMAIN posset \subseteq DOMAIN InitPosset \cup Range(todo)

\* ----------------------------------------------------------------- C18
\* the token lists of the analysis lines of the response
C18_AnalysisLines ==
    {SplitWs(l) : l \in {m \in Range(Split(analyses, <<NL>>)) : ~StartsWith(m, <<"\"", "<">>)}}

\* the first colon-separated part of the accumulated tag is the marker A
C18_StartsWithA(pos) == Split(pos, <<":">>)[1] = <<"A">>

\* the tag the claim gives a line: the accumulated tag of the scan, with
\* :zu when the token zu is in the line, else with :flekt when the tag
\* starts with the marker A and a token stands beyond the index the scan
\* stopped at
C18_TagOf(linelist) ==
    LET sc == GertwolScan(linelist, 1, <<>>)
    IN  IF <<"z", "u">> \in Range(linelist) THEN sc.pos \o <<":", "z", "u">>
        ELSE IF C18_StartsWithA(sc.pos) /\ Len(linelist) > sc.i + 1
             THEN sc.pos \o <<":", "f", "l", "e", "k", "t">>
        ELSE sc.pos

C20_Skipped(l) ==
    \/ StartsWith(l, <<"n", "o", " ", "r", "e", "s", "u", "l", "t">>)
    \/ ~StartsWith(l, <<">">>) /\ ~re_mainclass(l).found

C20_WithoutSkipped(text) ==
    Join(<<NL>>, SelectSeq(Split(text, <<NL>>), LAMBDA l : ~C20_Skipped(l)))

\* the word of the last marker line before line k
C20_CurrentWord(lines, k) ==
    LET ms == {j \in 1..(k - 1) : StartsWith(lines[j], <<">">>)}
    IN  IF ms = {} THEN <<>>
        ELSE SubSeq(lines[CHOOSE j \in ms : \A h \in ms : h <= j], 3,
                    Len(lines[CHOOSE j \in ms : \A h \in ms : h <= j]))

\* C20: the service normalizer comes to its end on every response; the
\* cache is the one the response without its skipped lines gives, and the
\* tags of every line with a main class, also after a skipped line, are in
\* the entry of the word of the last marker line before it.
C20_SkippedLinesChangeNothing ==
    (analyzer = "Morphisto" /\ pc # "call") =>
        LET lines == Split(analyses, <<NL>>)
        IN  /\ pc = "returned"
            /\ posset = Morphisto_convert(ConvertQuery.ps, C20_WithoutSkipped(analyses)).ps
            /\ \A k \in 1..Len(lines) :
                  (~StartsWith(lines[k], <<">">>) /\ ~C20_Skipped(lines[k])) =>
                      LET t == get_true_pos(re_mainclass(lines[k]).group, lines[k])
                          w == C20_CurrentWord(lines, k)
                      IN  /\ t[1] # <<>> => (w \in DOMAIN posset /\ t[1] \in posset[w])
                          /\ t[2] # <<>> => (w \in DOMAIN posset /\ t[2] \in posset[w])

\* a response with a "no result" line and a line without a main class
\* before an analysis, whose tag is in the entry of the word
C20_Witness ==
    /\ analyzer = "Morphisto"
    /\ pc = "returned"
    /\ analyses = Join(<<NL>>,
           <<(<<">", " ">> \o W_Fusze),
             <<"n", "o", " ", "r", "e", "s", "u", "l", "t", " ", "f", "o", "r", " ">> \o W_Fusze,
             W_Fusze,
             W_Fusze \o <<"<", "+", "N", "N", ">">>>>) \o <<NL>>
    /\ posset[W_Fusze] = {<<"N", "N">>}
====
